---- MODULE Spec2Model ----
(***************************************************************************)
(* Model of server.js: the line-delimited JSON-RPC transport over stdio    *)
(* (class JsonRpcStdio), the method dispatcher (class MCPServer) and the   *)
(* start-up sequence of createServer.                                      *)
(*                                                                         *)
(* Text on the wire is a sequence of tokens.  A token is a fragment of the *)
(* wire text that the code never looks inside: "\n", one white-space       *)
(* character, a JSON punctuation mark, one member ("id":1) of an object or *)
(* one scalar JSON text.  A chunk boundary may fall between any two        *)
(* tokens, so a chunk may end in the middle of a line.                     *)
(*                                                                         *)
(* A JavaScript value is a record [t |-> type, s |-> text]; s is the text  *)
(* JSON.stringify gives for it, except that a string is kept without its   *)
(* quotes.                                                                 *)
(***************************************************************************)
EXTENDS Integers, Sequences, FiniteSets, TLC

\* Number of pieces (lines or line fragments) the peer writes in one run.
MaxPieces == 2

NL == "\n"
WhiteSpace == {" ", "\r", "\t", NL}

-----------------------------------------------------------------------------
(* JavaScript values *)

Undefined == [t |-> "undef", s |-> ""]
Null == [t |-> "null", s |-> "null"]
Num(s) == [t |-> "num", s |-> s]
Str(s) == [t |-> "str", s |-> s]
Obj(s) == [t |-> "obj", s |-> s]
Arr(s) == [t |-> "arr", s |-> s]
False == [t |-> "bool", s |-> "false"]
EmptyObject == Obj("{}")

\* ToBoolean, as used by `if (msg.method)`, `else if (msg.id)`, `params || {}`.
Truthy(v) ==
  CASE v.t = "undef" -> FALSE
    [] v.t = "null" -> FALSE
    [] v.t = "bool" -> v.s = "true"
    [] v.t = "num" -> v.s # "0"
    [] v.t = "str" -> v.s # ""
    [] OTHER -> TRUE

\* ToString, as used by 'Method not found: ' + method.
JSToString(v) ==
  CASE v.t = "undef" -> "undefined"
    [] v.t = "obj" -> "[object Object]"
    [] v.t = "arr" -> ""
    [] OTHER -> v.s

\* JSON.stringify of one value (the strings of the model need no escapes).
Quote(s) == "\"" \o s \o "\""
StringifyValue(v) == IF v.t = "str" THEN Quote(v.s) ELSE v.s

-----------------------------------------------------------------------------
(* The wire: tokens, members, lines *)

\* The params objects of tools/call in the model: {name, arguments: {sql}}.
ToolNames == {"query", "drop"}
SqlTexts == {"SELECT 1", " Select 1", "DROP TABLE t", "SELECT"}
ToolParams(name, sql) ==
  Obj("{\"name\":" \o Quote(name) \o ",\"arguments\":{\"sql\":" \o Quote(sql) \o "}}")

\* The params objects of the model that have one of the properties the
\* handlers read, with those properties ("" for a missing one).
ParamTable ==
  { [s |-> "{\"uri\":\"mysql://test/t\"}",
     uri |-> "mysql://test/t", templateId |-> "", name |-> "", sql |-> ""],
    [s |-> "{\"name\":\"query\"}",
     uri |-> "", templateId |-> "", name |-> "query", sql |-> ""] }
  \cup { [s |-> ToolParams(n, q).s, uri |-> "", templateId |-> "", name |-> n, sql |-> q] :
           n \in ToolNames, q \in SqlTexts }

\* The values a member of an inbound object can carry, per key.
MemberValues ==
  [ id |-> {Num("1"), Num("2"), Num("0"), Str("")},
    method |-> {Str("initialize"), Str("initialized"), Str("resources/list"),
                Str("resources/read"), Str("tools/call"), Str("nope")},
    params |-> {Obj("{\"x\":1}"), Null, False, Num("0"), Str("")}
                 \cup {Obj(r.s) : r \in ParamTable},
    jsonrpc |-> {Str("2.0")} ]

MemberKeys == DOMAIN MemberValues

\* The token of the member "key":value.
Member(key, v) == Quote(key) \o ":" \o StringifyValue(v)

MemberTokens == UNION {{Member(k, v) : v \in MemberValues[k]} : k \in MemberKeys}

\* The scalar JSON texts that can stand alone on a line.
ScalarTokens == {"null", "7", "\"s\"", "[]", "true"}

ScalarValue(tok) ==
  CASE tok = "null" -> Null
    [] tok = "7" -> Num("7")
    [] tok = "\"s\"" -> Str("s")
    [] tok = "[]" -> Arr("[]")
    [] tok = "true" -> [t |-> "bool", s |-> "true"]

-----------------------------------------------------------------------------
(* JSON.parse, on the lines the model can build *)

IsWhite(tok) == tok \in WhiteSpace
NotWhite(tok) == tok \notin WhiteSpace

\* The [key, value] pair a member token denotes.
MemberOf(tok) ==
  CHOOSE p \in UNION {{<<k, v>> : v \in MemberValues[k]} : k \in MemberKeys} :
    Member(p[1], p[2]) = tok

\* An object text: "{" then members separated by "," then "}".
IsObjectText(toks) ==
  /\ Len(toks) >= 2
  /\ toks[1] = "{"
  /\ toks[Len(toks)] = "}"
  /\ \/ Len(toks) = 2
     \/ /\ Len(toks) % 2 = 1
        /\ \A i \in 2..(Len(toks) - 1) :
             IF i % 2 = 0 THEN toks[i] \in MemberTokens ELSE toks[i] = ","

\* JSON.parse accepts the line (white space between tokens is skipped).
Parses(line) ==
  LET toks == SelectSeq(line, NotWhite)
  IN  \/ Len(toks) = 1 /\ toks[1] \in ScalarTokens
      \/ IsObjectText(toks)

\* The fields of an object text; a repeated key keeps its last value.
RECURSIVE Fields(_, _)
Fields(toks, i) ==
  IF i > Len(toks) - 1 THEN <<>>
  ELSE LET p == MemberOf(toks[i])
           rest == Fields(toks, i + 2)
       IN  IF p[1] \in DOMAIN rest THEN rest ELSE (p[1] :> p[2]) @@ rest

\* The value JSON.parse returns for a line it accepts.
JSONParse(line) ==
  LET toks == SelectSeq(line, NotWhite)
  IN  IF Len(toks) = 1
      THEN [t |-> ScalarValue(toks[1]).t, s |-> ScalarValue(toks[1]).s, f |-> <<>>]
      ELSE [t |-> "obj", s |-> "", f |-> Fields(toks, 2)]

\* msg.key: undefined when the property is missing.  (Reading a property of
\* null throws; the callers test for null first.)
Get(msg, key) ==
  IF msg.t = "obj" /\ key \in DOMAIN msg.f THEN msg.f[key] ELSE Undefined

-----------------------------------------------------------------------------
(* String.prototype.indexOf('\n'), slice and trim on token sequences *)

\* 0 stands for JavaScript's -1; positions are 1-based.
IndexOfNL(buf) ==
  IF \E i \in 1..Len(buf) : buf[i] = NL
  THEN CHOOSE i \in 1..Len(buf) : buf[i] = NL /\ \A j \in 1..(i - 1) : buf[j] # NL
  ELSE 0

RECURSIVE TrimStart(_)
TrimStart(s) == IF s # <<>> /\ IsWhite(Head(s)) THEN TrimStart(Tail(s)) ELSE s

RECURSIVE TrimEnd(_)
TrimEnd(s) ==
  IF s # <<>> /\ IsWhite(s[Len(s)]) THEN TrimEnd(SubSeq(s, 1, Len(s) - 1)) ELSE s

Trim(s) == TrimEnd(TrimStart(s))

-----------------------------------------------------------------------------
(* Outbound messages and JSON.stringify *)

\* An outbound object is the sequence of its <<key, value>> properties in
\* insertion order.
MethodNotFound == "-32601"
InternalErrorCode == "-32603"

ErrorObject(code, message) ==
  Obj("{" \o Member("code", Num(code)) \o "," \o Member("message", Str(message)) \o "}")

\* JSON.stringify throws on a value it cannot serialize (a BigInt, a cycle).
Serializable(obj) == \A i \in 1..Len(obj) : obj[i][2].t # "bigint"

\* JSON.stringify of an object: properties whose value is undefined are left
\* out.
RECURSIVE StringifyProps(_, _)
StringifyProps(obj, first) ==
  IF obj = <<>> THEN ""
  ELSE IF Head(obj)[2].t = "undef" THEN StringifyProps(Tail(obj), first)
  ELSE (IF first THEN "" ELSE ",")
         \o Member(Head(obj)[1], Head(obj)[2])
         \o StringifyProps(Tail(obj), FALSE)

JSONStringify(obj) == "{" \o StringifyProps(obj, TRUE) \o "}"

\* obj.key of an outbound object.
Prop(obj, key) ==
  IF \E i \in 1..Len(obj) : obj[i][1] = key
  THEN obj[CHOOSE i \in 1..Len(obj) : obj[i][1] = key][2]
  ELSE Undefined

JsonRpc == <<"jsonrpc", Str("2.0")>>

\* The object built at line 50 with the wrong code.
NotFoundReply_internal(id, method) ==
  << JsonRpc, <<"id", id>>,
     <<"error", ErrorObject(InternalErrorCode, "Method not found: " \o JSToString(method))>> >>

\* The object built at line 50.
NotFoundReply(id, method) ==
  << JsonRpc, <<"id", id>>,
     <<"error", ErrorObject(MethodNotFound, "Method not found: " \o JSToString(method))>> >>

\* The object built at line 55 with `result: null` whatever the handler gave.
ResultReply_null(id, result) == << JsonRpc, <<"id", id>>, <<"result", Null>> >>

\* The object built at line 55.
ResultReply(id, result) == << JsonRpc, <<"id", id>>, <<"result", result>> >>

\* The object built at line 58 with a `result: null` next to the error.
InternalErrorReply_withResult(id, err) ==
  << JsonRpc, <<"id", id>>, <<"result", Null>>,
     <<"error", ErrorObject(InternalErrorCode, "Internal error")>> >>

\* The object built at line 58 with the caught error in its message.
InternalErrorReply_leak(id, err) ==
  << JsonRpc, <<"id", id>>,
     <<"error", ErrorObject(InternalErrorCode, "Internal error: " \o JSToString(err))>> >>

\* The object built at line 58, in the catch block that holds err.
InternalErrorReply(id, err) ==
  << JsonRpc, <<"id", id>>, <<"error", ErrorObject(InternalErrorCode, "Internal error")>> >>

-----------------------------------------------------------------------------
(* createServer: the configuration and the eight handlers *)

ServerName == "mysql-mcp-server"
ServerVersion == "1.0.1"
CapabilitiesText ==
  "{\"resources\":{\"list\":true,\"read\":true,\"listChanged\":true,\"templates\":true},"
    \o "\"tools\":{\"list\":true,\"call\":true}}"
Database == "test"

\* createServer without the setHandler call of line 101.
Registrations_noInitialized ==
  << "initialize", "resources/list", "resources/read",
     "resources/templates/list", "resources/templates/get", "tools/list", "tools/call" >>

\* The setHandler calls of createServer, in source order.
Registrations ==
  << "initialize", "initialized", "resources/list", "resources/read",
     "resources/templates/list", "resources/templates/get", "tools/list", "tools/call" >>

\* What pool.query can do: resolve with rows or reject with an error.
TableRows == "[{\"TABLE_NAME\":\"t\"}]"
QueryOutcomes ==
  { [k |-> "rows", v |-> "[]"], [k |-> "rows", v |-> TableRows],
    [k |-> "error", v |-> "ER_ACCESS_DENIED_ERROR"], [k |-> "error", v |-> "ECONNREFUSED"] }

\* What the destructuring parameters of the handlers read from their
\* argument: uri, templateId, name and arguments.sql ("" when the property is
\* missing, as it is in every argument that is not one of ParamTable).
ParamProp(arg, key) ==
  IF arg.t = "obj" /\ \E r \in ParamTable : r.s = arg.s
  THEN (CHOOSE r \in ParamTable : r.s = arg.s)[key]
  ELSE ""

Returned(v) == [k |-> "returned", v |-> v]
Threw(detail) == [k |-> "threw", v |-> Str(detail)]
Awaiting(sql) == [k |-> "awaiting", v |-> Str(sql)]

\* The initialize handler without its resourceTemplates property.
InitializeResult_noTemplates ==
  Obj("{\"protocolVersion\":\"2024-11-05\",\"serverInfo\":{\"name\":" \o Quote(ServerName)
        \o ",\"version\":" \o Quote(ServerVersion) \o "},\"capabilities\":" \o CapabilitiesText
        \o "}")

\* The value the initialize handler returns (lines 88-98).
InitializeResult ==
  Obj("{\"protocolVersion\":\"2024-11-05\",\"serverInfo\":{\"name\":" \o Quote(ServerName)
        \o ",\"version\":" \o Quote(ServerVersion) \o "},\"capabilities\":" \o CapabilitiesText
        \o ",\"resourceTemplates\":[]}")

\* The sql texts of the model as sequences of fragments the regular
\* expression never looks inside: one white-space character, the six letters
\* of a `select` in any case, or a run of other characters.
Chars(sql) ==
  CASE sql = "SELECT 1" -> <<"SELECT", " ", "1">>
    [] sql = " Select 1" -> <<" ", "Select", " ", "1">>
    [] sql = "DROP TABLE t" -> <<"DROP", " ", "TABLE", " ", "t">>
    [] sql = "SELECT" -> <<"SELECT">>
    [] sql = "" -> <<>>

\* The fragment with its letters in upper case (the flag i of the pattern).
ToUpperCase(frag) ==
  CASE frag = "Select" -> "SELECT"
    [] frag = "t" -> "T"
    [] OTHER -> frag

\* /^\s*SELECT\s+/i.test(sql) accepting every text that is not empty.
IsSelect_anyText(sql) == Chars(sql) # <<>>

\* /^\s*SELECT\s+/i.test(sql): leading white space, then SELECT in any
\* case, then at least one white-space character.
IsSelect(sql) ==
  LET rest == TrimStart(Chars(sql))
  IN  Len(rest) >= 2 /\ ToUpperCase(rest[1]) = "SELECT" /\ IsWhite(rest[2])

\* The handler registered for `method`, run up to its first pool.query (or to
\* its end when it makes none).  Awaiting carries the statement passed to
\* pool.query (the table name without the back quotes the code puts around
\* it).
HandlerCall(method, arg) ==
  CASE method = "initialize" -> Returned(InitializeResult)
    [] method = "initialized" -> Returned(EmptyObject)
    [] method = "resources/list" ->
         Awaiting("SELECT table_name FROM information_schema.tables WHERE table_schema = ?")
    [] method = "resources/read" ->
         IF ParamProp(arg, "uri") = "" THEN Threw("uri required")
         ELSE Awaiting("SELECT * FROM t LIMIT ? OFFSET ?")
    [] method = "resources/templates/list" ->
         Returned(Obj("{\"resourceTemplates\":[{\"id\":\"top10\",\"name\":\"Top 10 rows\","
                        \o "\"uriTemplate\":\"mysql://{{database}}/{{table}}\"},"
                        \o "{\"id\":\"top100\",\"name\":\"Top 100 rows\","
                        \o "\"uriTemplate\":\"mysql://{{database}}/{{table}}\"}]}"))
    [] method = "resources/templates/get" ->
         IF ParamProp(arg, "uri") = "" \/ ParamProp(arg, "templateId") = ""
         THEN Threw("uri and templateId required") ELSE Awaiting("SELECT * FROM t LIMIT ?")
    [] method = "tools/list" ->
         Returned(Obj("{\"tools\":[{\"name\":\"query\",\"description\":\"Execute a read-only SELECT query\","
                        \o "\"inputSchema\":{\"type\":\"object\",\"properties\":{\"sql\":{\"type\":\"string\","
                        \o "\"description\":\"A SELECT SQL query\"}},\"required\":[\"sql\"]},"
                        \o "\"outputSchema\":{\"type\":\"object\",\"properties\":{\"result\":{\"type\":\"array\"}}}}]}"))
    [] method = "tools/call" ->
         IF ParamProp(arg, "name") # "query" THEN Returned(Obj("{\"error\":\"Unknown tool\"}"))
         ELSE IF ~IsSelect(ParamProp(arg, "sql"))
              THEN Returned(Obj("{\"error\":\"Only SELECT queries allowed\"}"))
              ELSE Awaiting(ParamProp(arg, "sql"))

\* JSON.stringify(rows, null, 2) and JSON.stringify(rows) of the row sets of
\* the model, with the escapes they get as a string inside the reply.
RowsPretty(rows) ==
  IF rows = "[]" THEN "[]"
  ELSE "[\\n  {\\n    \\\"TABLE_NAME\\\": \\\"t\\\"\\n  }\\n]"

RowsCompact(rows) ==
  IF rows = "[]" THEN "[]" ELSE "[{\\\"TABLE_NAME\\\":\\\"t\\\"}]"

\* The rest of the handler once its pool.query has settled with `q`.
HandlerResume(method, arg, q) ==
  IF q.k = "error" THEN Threw(q.v)
  ELSE CASE method = "resources/list" ->
              Returned(Obj("{\"resources\":"
                 \o (IF q.v = "[]" THEN "[]"
                     ELSE "[{\"uri\":\"mysql://" \o Database \o "/t\",\"name\":\"t\","
                            \o "\"description\":\"MySQL table t in " \o Database \o "\","
                            \o "\"mimeType\":\"application/json\"}]")
                 \o "}"))
         [] method = "resources/read" ->
              Returned(Obj("{\"contents\":[{\"uri\":" \o Quote(ParamProp(arg, "uri"))
                 \o ",\"mimeType\":\"application/json\",\"text\":" \o Quote(RowsPretty(q.v))
                 \o "}]}"))
         [] method = "resources/templates/get" ->
              Returned(Obj("{\"resourceTemplate\":{\"uri\":" \o Quote(ParamProp(arg, "uri"))
                 \o ",\"contents\":" \o Quote(RowsCompact(q.v)) \o "}}"))
         [] method = "tools/call" -> Returned(Obj("{\"result\":" \o q.v \o "}"))

-----------------------------------------------------------------------------
(* What the peer writes *)

Mem(key, s) == Member(key, IF key = "id" THEN Num(s) ELSE IF key = "params" THEN Obj(s) ELSE Str(s))

Pieces ==
  { <<"{", Mem("id", "1"), ",", Mem("method", "initialize"), "}", NL>>,
    <<"{", Mem("id", "2"), ",", Mem("method", "resources/list"), "}", "\r", NL>>,
    <<"{", Mem("method", "resources/read"), ",", Mem("id", "2"), "}", NL>>,
    <<"{", Mem("id", "1"), ",", Mem("method", "nope"), "}", NL>>,
    <<"{", Mem("method", "initialized"), "}", NL>>,
    <<"{", Mem("id", "1"), "}", NL>>,
    <<"null", NL>>,
    <<" ", "[]", NL>>,
    <<"{", NL>>,
    <<" ", "\r", NL, NL>> }

RECURSIVE Texts(_)
Texts(n) ==
  IF n = 0 THEN {<<>>}
  ELSE Texts(n - 1) \cup {t \o p : t \in Texts(n - 1), p \in Pieces}

\* One line holding a request, with and without params.
Request(id, method, params) ==
  << "{", Member("id", id), ",", Member("method", Str(method)), ",",
     Member("params", params), "}", NL >>
RequestNoParams(id, method) ==
  << "{", Member("id", id), ",", Member("method", Str(method)), "}", NL >>

\* Requests whose params is an object, is missing, or is present with one of
\* the values null, false, 0 and "".
ParamsPieces ==
  { Request(Num("1"), "resources/read", Obj("{\"uri\":\"mysql://test/t\"}")),
    RequestNoParams(Num("2"), "tools/call"),
    Request(Num("1"), "tools/call", Null),
    Request(Num("2"), "initialize", False),
    Request(Num("1"), "resources/read", Num("0")),
    Request(Num("2"), "tools/call", Str("")) }

\* Calls of the tool: each name with each sql text that matters to the
\* pattern, a call without arguments and a call without params.
ToolsPieces ==
  { Request(Num("1"), "tools/call", ToolParams("query", "SELECT 1")),
    Request(Num("2"), "tools/call", ToolParams("query", " Select 1")),
    Request(Num("1"), "tools/call", ToolParams("query", "DROP TABLE t")),
    Request(Num("2"), "tools/call", ToolParams("query", "SELECT")),
    Request(Num("1"), "tools/call", ToolParams("drop", "SELECT 1")),
    Request(Num("2"), "tools/call", Obj("{\"name\":\"query\"}")),
    RequestNoParams(Num("1"), "tools/call") }

\* Messages without a method, with each kind of id, and one request.
RegistryPieces ==
  { << "{", Member("id", Num("1")), "}", NL >>,
    << "{", Member("jsonrpc", Str("2.0")), ",", Member("id", Num("2")), "}", NL >>,
    << "{", Member("id", Num("0")), "}", NL >>,
    << "{", Member("id", Str("")), "}", NL >>,
    RequestNoParams(Num("1"), "resources/list") }

\* The ids a resolver can be registered under.
RegistryIds == {Num("1"), Num("0"), Str("")}

\* All texts of at most n pieces of P.
RECURSIVE TextsOf(_, _)
TextsOf(P, n) ==
  IF n = 0 THEN {<<>>}
  ELSE TextsOf(P, n - 1) \cup {t \o p : t \in TextsOf(P, n - 1), p \in P}

-----------------------------------------------------------------------------
(* State *)

VARIABLES
  pc,        \* position in createServer: "construct", "register", "announce", "running"
  handlers,  \* MCPServer.handlers: the method names that have a handler
  listening, \* the 'data' listener of the constructor of JsonRpcStdio is installed
  pending,   \* JsonRpcStdio.pending: the ids that have a resolver
  buffer,    \* JsonRpcStdio.buffer
  wire,      \* everything the peer writes on stdin in this run
  pos,       \* how much of wire has been delivered in 'data' events
  handled,   \* history: the values passed to _handleMessage, in order
  resolved,  \* history: the messages passed to a resolver of pending
  errlog,    \* the console.error calls, in order
  out,       \* the lines written to stdout, in order
  inv,       \* the handler invocations, in call order
  settled,   \* history: the invocations in the order their handler finished
  chunks,    \* history: "midline" once a chunk ended inside a line, "burst" once
             \* one chunk held several messages
  crashed,   \* an exception left the 'data' listener: the process is gone
  extracted  \* history: the lines _onData has cut from the buffer, before trim()

vars == << pc, handlers, listening, pending, buffer, wire, pos, handled, resolved,
           errlog, out, inv, settled, chunks, crashed, extracted >>

\* The process before createServer runs, with the text the peer will write.
InitWith(texts) ==
  /\ pc = "construct"
  /\ handlers = {}
  /\ listening = FALSE
  /\ pending = {}
  /\ buffer = <<>>
  /\ wire \in texts
  /\ pos = 0
  /\ handled = <<>>
  /\ resolved = <<>>
  /\ errlog = <<>>
  /\ out = <<>>
  /\ inv = <<>>
  /\ settled = <<>>
  /\ chunks = {}
  /\ crashed = FALSE
  /\ extracted = <<>>

Init == InitWith(Texts(MaxPieces))
ParamsInit == InitWith(TextsOf(ParamsPieces, MaxPieces))
ToolsInit == InitWith(TextsOf(ToolsPieces, MaxPieces))

-----------------------------------------------------------------------------
(* JsonRpcStdio and MCPServer *)

\* The part of the state one run of _onData reads and writes.
Transport ==
  [ buffer |-> buffer, pending |-> pending, handled |-> handled, resolved |-> resolved,
    errlog |-> errlog, out |-> out, inv |-> inv, settled |-> settled, crashed |-> crashed,
    extracted |-> extracted ]

\* One line on stdout; h is the position in `handled` of the request that is
\* answered (0 for a message that answers none).
Line(obj, h) == [obj |-> obj, text |-> JSONStringify(obj) \o NL, h |-> h]

\* JsonRpcStdio.send.
send(st, obj, h) == [st EXCEPT !.out = Append(@, Line(obj, h))]

LogInvalidJSON(line) == [kind |-> "Invalid JSON from client", line |-> line, err |-> Undefined]
LogHandlerThrew(err) == [kind |-> "handler threw", line |-> <<>>, err |-> err]

\* this.handlers.has(method)
Has(method) == method.t = "str" /\ method.s \in handlers

\* params || {}
HandlerArg(params) == IF Truthy(params) THEN params ELSE EmptyObject

\* _onRequest without the `await` of line 54: the reply is written at the
\* call, with the promise of the handler as result (JSON.stringify gives {}
\* for a promise).
OnRequestStart_noAwait(st, msg) ==
  LET h == Len(st.handled)
      id == Get(msg, "id")
      method == Get(msg, "method")
      params == Get(msg, "params")
      call == HandlerCall(method.s, HandlerArg(params))
      i == Len(st.inv) + 1
  IN  IF ~Has(method)
      THEN send(st, NotFoundReply(id, method), h)
      ELSE send([st EXCEPT
              !.inv = Append(@, [ h |-> h, id |-> id, method |-> method.s,
                                  arg |-> HandlerArg(params),
                                  status |-> IF call.k = "awaiting" THEN "running" ELSE "replied",
                                  query |-> IF call.k = "awaiting" THEN call.v ELSE Undefined,
                                  outcome |-> call ]),
              !.settled = IF call.k = "awaiting" THEN @ ELSE Append(@, i)],
             ResultReply(id, EmptyObject), h)

\* MCPServer._onRequest up to its first await: the lookup, then either the
\* method-not-found reply or the call of the handler.  A handler that makes
\* no query has finished when the call returns.
OnRequestStart(st, msg) ==
  LET h == Len(st.handled)
      id == Get(msg, "id")
      method == Get(msg, "method")
      params == Get(msg, "params")
      call == HandlerCall(method.s, HandlerArg(params))
      i == Len(st.inv) + 1
  IN  IF ~Has(method)
      THEN send(st, NotFoundReply(id, method), h)
      ELSE [st EXCEPT
              !.inv = Append(@, [ h |-> h, id |-> id, method |-> method.s,
                                  arg |-> HandlerArg(params),
                                  status |-> IF call.k = "awaiting" THEN "running" ELSE "settled",
                                  query |-> IF call.k = "awaiting" THEN call.v ELSE Undefined,
                                  outcome |-> call ]),
              !.settled = IF call.k = "awaiting" THEN @ ELSE Append(@, i)]

\* JsonRpcStdio._handleMessage.  msg.method on null throws a TypeError.
\* this.onRequest is set by the constructor of MCPServer before any 'data'
\* event, so `this.onRequest &&` is always true.
HandleMessage(st0, msg) ==
  LET st == [st0 EXCEPT !.handled = Append(@, msg)]
  IN  IF msg.t = "null" THEN [st EXCEPT !.crashed = TRUE]
      ELSE IF Truthy(Get(msg, "method")) THEN OnRequestStart(st, msg)
      ELSE IF Truthy(Get(msg, "id"))
           THEN IF Get(msg, "id") \in st.pending
                THEN [st EXCEPT !.resolved = Append(@, msg),
                                !.pending = @ \ {Get(msg, "id")}]
                ELSE st
           ELSE st

\* The loop with `break` for `continue` in the catch of JSON.parse.
RECURSIVE OnDataLoop_stopOnInvalid(_)
OnDataLoop_stopOnInvalid(st) ==
  LET idx == IndexOfNL(st.buffer)
      line == Trim(SubSeq(st.buffer, 1, idx - 1))
      st1 == [st EXCEPT !.buffer = SubSeq(@, idx + 1, Len(@)),
                        !.extracted = Append(@, SubSeq(st.buffer, 1, idx - 1))]
  IN  IF idx = 0 THEN st
      ELSE IF line = <<>> THEN OnDataLoop_stopOnInvalid(st1)
      ELSE IF ~Parses(line)
           THEN [st1 EXCEPT !.errlog = Append(@, LogInvalidJSON(line))]
           ELSE LET st2 == HandleMessage(st1, JSONParse(line))
                IN  IF st2.crashed THEN st2 ELSE OnDataLoop_stopOnInvalid(st2)

\* The loop without `if (!line) continue`.
RECURSIVE OnDataLoop_noBlankSkip(_)
OnDataLoop_noBlankSkip(st) ==
  LET idx == IndexOfNL(st.buffer)
      line == Trim(SubSeq(st.buffer, 1, idx - 1))
      st1 == [st EXCEPT !.buffer = SubSeq(@, idx + 1, Len(@)),
                        !.extracted = Append(@, SubSeq(st.buffer, 1, idx - 1))]
  IN  IF idx = 0 THEN st
      ELSE IF ~Parses(line)
           THEN OnDataLoop_noBlankSkip([st1 EXCEPT !.errlog = Append(@, LogInvalidJSON(line))])
           ELSE LET st2 == HandleMessage(st1, JSONParse(line))
                IN  IF st2.crashed THEN st2 ELSE OnDataLoop_noBlankSkip(st2)

\* The while loop of JsonRpcStdio._onData.
RECURSIVE OnDataLoop(_)
OnDataLoop(st) ==
  LET idx == IndexOfNL(st.buffer)
      line == Trim(SubSeq(st.buffer, 1, idx - 1))
      st1 == [st EXCEPT !.buffer = SubSeq(@, idx + 1, Len(@)),
                        !.extracted = Append(@, SubSeq(st.buffer, 1, idx - 1))]
  IN  IF idx = 0 THEN st
      ELSE IF line = <<>> THEN OnDataLoop(st1)
      ELSE IF ~Parses(line)
           THEN OnDataLoop([st1 EXCEPT !.errlog = Append(@, LogInvalidJSON(line))])
           ELSE LET st2 == HandleMessage(st1, JSONParse(line))
                IN  IF st2.crashed THEN st2 ELSE OnDataLoop(st2)

\* _onData with `this.buffer = (this.buffer + chunk).trimStart()`.
OnDataResult_trimStart(st, chunk) == OnDataLoop([st EXCEPT !.buffer = TrimStart(@ \o chunk)])

\* _onData with `this.buffer = chunk` for `this.buffer += chunk`.
OnDataResult_replace(st, chunk) == OnDataLoop([st EXCEPT !.buffer = chunk])

\* JsonRpcStdio._onData.
OnDataResult(st, chunk) == OnDataLoop([st EXCEPT !.buffer = @ \o chunk])

\* The continuation with `id` shared by all requests (the last one received
\* wins) instead of local to each call.
OnRequestResume_sharedId(st, i) ==
  LET r == st.inv[i]
      id == st.inv[Len(st.inv)].id
      done == [st EXCEPT !.inv[i].status = "replied"]
  IN  IF r.outcome.k = "returned" /\ Serializable(ResultReply(id, r.outcome.v))
      THEN send(done, ResultReply(id, r.outcome.v), r.h)
      ELSE send([done EXCEPT !.errlog = Append(@, LogHandlerThrew(r.outcome.v))],
                InternalErrorReply(id, r.outcome.v), r.h)

\* The continuation of MCPServer._onRequest after `await handler(...)`.
OnRequestResume(st, i) ==
  LET r == st.inv[i]
      done == [st EXCEPT !.inv[i].status = "replied"]
  IN  IF r.outcome.k = "returned" /\ Serializable(ResultReply(r.id, r.outcome.v))
      THEN send(done, ResultReply(r.id, r.outcome.v), r.h)
      ELSE send([done EXCEPT !.errlog = Append(@, LogHandlerThrew(
                         IF r.outcome.k = "threw" THEN r.outcome.v
                         ELSE Str("TypeError: Do not know how to serialize a BigInt")))],
                InternalErrorReply(r.id, r.outcome.v), r.h)

\* MCPServer.announce.
AnnounceMessage ==
  << JsonRpc, <<"method", Str("mcp/announce")>>,
     <<"params", Obj("{\"name\":" \o Quote(ServerName) \o ",\"version\":" \o Quote(ServerVersion)
                       \o ",\"capabilities\":" \o CapabilitiesText \o "}")>> >>

-----------------------------------------------------------------------------
(* Actions *)

\* A continuation of _onRequest is waiting in the microtask queue.
MicrotaskQueued == \E i \in 1..Len(inv) : inv[i].status = "settled"

\* Line 84: new MCPServer(...), which constructs the transport and installs
\* the 'data' listener.
Construct ==
  /\ pc = "construct"
  /\ pc' = "register"
  /\ handlers' = {}
  /\ listening' = TRUE
  /\ pending' = {}
  /\ buffer' = <<>>
  /\ UNCHANGED << wire, pos, handled, resolved, errlog, out, inv, settled, chunks, crashed, extracted >>

\* The next server.setHandler(...) call of createServer.
NextRegistration == Cardinality(handlers) + 1

\* createServer with the announce moved up, before the last setHandler.
SetHandler_announceEarly ==
  /\ pc = "register"
  /\ NextRegistration <= Len(Registrations)
  /\ handlers' = handlers \cup {Registrations[NextRegistration]}
  /\ pc' = IF NextRegistration >= Len(Registrations) - 1 THEN "announce" ELSE "register"
  /\ UNCHANGED << listening, pending, buffer, wire, pos, handled, resolved, errlog, out,
                  inv, settled, chunks, crashed, extracted >>

SetHandler ==
  /\ pc = "register"
  /\ NextRegistration <= Len(Registrations)
  /\ handlers' = handlers \cup {Registrations[NextRegistration]}
  /\ pc' = IF NextRegistration = Len(Registrations) THEN "announce" ELSE "register"
  /\ UNCHANGED << listening, pending, buffer, wire, pos, handled, resolved, errlog, out,
                  inv, settled, chunks, crashed, extracted >>

\* Line 219: await server.announce().
Announce ==
  /\ pc = "announce"
  /\ out' = Append(out, Line(AnnounceMessage, 0))
  /\ pc' = "running"
  /\ UNCHANGED << handlers, listening, pending, buffer, wire, pos, handled, resolved,
                  errlog, inv, settled, chunks, crashed, extracted >>

\* A 'data' event delivers the next n tokens of the wire.  Events are
\* delivered once the synchronous part of createServer has returned and the
\* microtask queue is empty.
OnData(n) ==
  /\ pc = "running" /\ listening /\ ~crashed
  /\ ~MicrotaskQueued
  /\ pos + n <= Len(wire)
  /\ \E st \in {OnDataResult(Transport, SubSeq(wire, pos + 1, pos + n))} :
         /\ buffer' = st.buffer
         /\ pending' = st.pending
         /\ handled' = st.handled
         /\ resolved' = st.resolved
         /\ errlog' = st.errlog
         /\ out' = st.out
         /\ inv' = st.inv
         /\ settled' = st.settled
         /\ crashed' = st.crashed
         /\ extracted' = st.extracted
         /\ chunks' = chunks
              \cup (IF SelectSeq(st.buffer, NotWhite) # <<>> THEN {"midline"} ELSE {})
              \cup (IF Len(st.handled) >= Len(handled) + 2 THEN {"burst"} ELSE {})
  /\ pos' = pos + n
  /\ UNCHANGED << pc, handlers, listening, wire >>

\* The pool.query of invocation i settles with q and the handler runs to its
\* end.
QuerySettles(i, q) ==
  /\ ~crashed
  /\ ~MicrotaskQueued
  /\ i \in 1..Len(inv)
  /\ inv[i].status = "running"
  /\ inv' = [inv EXCEPT ![i].status = "settled",
                        ![i].outcome = HandlerResume(inv[i].method, inv[i].arg, q)]
  /\ settled' = Append(settled, i)
  /\ UNCHANGED << pc, handlers, listening, pending, buffer, wire, pos, handled, resolved,
                  errlog, out, chunks, crashed, extracted >>

\* A dispatcher that writes its replies in the order of the requests: the
\* continuation of a request waits for the replies to all earlier ones.
Resume_inOrder ==
  /\ ~crashed
  /\ MicrotaskQueued
  /\ \E i \in 1..Len(inv) :
       /\ inv[i].status = "settled"
       /\ \A k \in 1..(i - 1) : inv[k].status = "replied"
       /\ \E st \in {OnRequestResume(Transport, i)} :
         /\ inv' = st.inv
         /\ out' = st.out
         /\ errlog' = st.errlog
  /\ UNCHANGED << pc, handlers, listening, pending, buffer, wire, pos, handled, resolved,
                  settled, chunks, crashed, extracted >>

\* The microtask queue runs the oldest waiting continuation of _onRequest.
Resume ==
  /\ ~crashed
  /\ MicrotaskQueued
  /\ \E i \in 1..Len(inv) :
       /\ inv[i].status = "settled"
       /\ \A k \in 1..(i - 1) : inv[k].status # "settled"
       /\ \E st \in {OnRequestResume(Transport, i)} :
         /\ inv' = st.inv
         /\ out' = st.out
         /\ errlog' = st.errlog
  /\ UNCHANGED << pc, handlers, listening, pending, buffer, wire, pos, handled, resolved,
                  settled, chunks, crashed, extracted >>

Next ==
  \/ Construct
  \/ SetHandler
  \/ Announce
  \/ \E n \in 1..Len(wire) : OnData(n)
  \/ \E i \in 1..Len(inv), q \in QueryOutcomes : QuerySettles(i, q)
  \/ Resume

Spec == Init /\ [][Next]_vars

\* The event loop always runs a queued microtask.
FairSpec == Spec /\ WF_vars(Resume)

\* The same program fed with requests that differ in their params, and with
\* calls of the tool.
ParamsSpec == ParamsInit /\ [][Next]_vars
ToolsSpec == ToolsInit /\ [][Next]_vars

\* _handleMessage with resolvers in the registry.  The transport is as
\* createServer leaves it, except that `pending` holds a resolver under each
\* id of a set drawn from RegistryIds.  The source has no call of
\* pending.set, so the entries are an input here, as they are for
\* _handleMessage itself: they stand for what code that sends requests
\* through this transport would have registered.
RegistryInit ==
  /\ pc = "running"
  /\ handlers = {Registrations[i] : i \in 1..Len(Registrations)}
  /\ listening = TRUE
  /\ pending \in SUBSET RegistryIds
  /\ buffer = <<>>
  /\ wire \in TextsOf(RegistryPieces, MaxPieces)
  /\ pos = 0
  /\ handled = <<>>
  /\ resolved = <<>>
  /\ errlog = <<>>
  /\ out = <<Line(AnnounceMessage, 0)>>
  /\ inv = <<>>
  /\ settled = <<>>
  /\ chunks = {}
  /\ crashed = FALSE
  /\ extracted = <<>>

RegistryNext ==
  \/ \E n \in 1..Len(wire) : OnData(n)
  \/ \E i \in 1..Len(inv), q \in QueryOutcomes : QuerySettles(i, q)
  \/ Resume

RegistrySpec == RegistryInit /\ [][RegistryNext]_vars

-----------------------------------------------------------------------------
(* Reference definitions used by the properties *)

\* The text delivered so far.
Consumed == SubSeq(wire, 1, pos)

\* A transport as the constructor leaves it.
FreshTransport ==
  [ buffer |-> <<>>, pending |-> {}, handled |-> <<>>, resolved |-> <<>>,
    errlog |-> <<>>, out |-> <<>>, inv |-> <<>>, settled |-> <<>>, crashed |-> FALSE,
    extracted |-> <<>> ]

AllRegistered == {Registrations[i] : i \in 1..Len(Registrations)}

\* Message h of `handled` names a method (it is dispatched to _onRequest).
IsRequest(h) == handled[h].t = "obj" /\ Truthy(Get(handled[h], "method"))

\* The lines on stdout that answer message h.
RepliesTo(h) == {k \in 1..Len(out) : out[k].h = h}

\* The invocations made for message h.
InvocationsOf(h) == {i \in 1..Len(inv) : inv[i].h = h}

\* The complete lines of a text: the tokens between one "\n" and the next.
RECURSIVE RefLines(_, _)
RefLines(text, cur) ==
  IF text = <<>> THEN <<>>
  ELSE IF Head(text) = NL THEN <<cur>> \o RefLines(Tail(text), <<>>)
  ELSE RefLines(Tail(text), Append(cur, Head(text)))

\* The text after the last "\n".
RECURSIVE RefTail(_, _)
RefTail(text, cur) ==
  IF text = <<>> THEN cur
  ELSE IF Head(text) = NL THEN RefTail(Tail(text), <<>>)
  ELSE RefTail(Tail(text), Append(cur, Head(text)))

IsBlankLine(l) == \A i \in 1..Len(l) : l[i] \in WhiteSpace

\* A line without the white space around it.
Stripped(l) ==
  IF IsBlankLine(l) THEN <<>>
  ELSE LET ink == {i \in 1..Len(l) : l[i] \notin WhiteSpace}
           lo == CHOOSE i \in ink : \A j \in ink : i <= j
           hi == CHOOSE i \in ink : \A j \in ink : i >= j
       IN  [k \in 1..(hi - lo + 1) |-> l[lo + k - 1]]

IsInvalidLine(l) == ~IsBlankLine(l) /\ ~Parses(Stripped(l))
IsValidLine(l) == ~IsBlankLine(l) /\ Parses(Stripped(l))
IsNullLine(l) == IsValidLine(l) /\ SelectSeq(l, NotWhite) = <<"null">>

\* The lines up to and including the first one that reads `null`: the
\* TypeError it raises ends the process.
ProcessedLines(lines) ==
  IF \E a \in 1..Len(lines) : IsNullLine(lines[a])
  THEN SubSeq(lines, 1, CHOOSE a \in 1..Len(lines) :
                          IsNullLine(lines[a]) /\ \A b \in 1..(a - 1) : ~IsNullLine(lines[b]))
  ELSE lines

InvalidJSONLog == SelectSeq(errlog, LAMBDA e : e.kind = "Invalid JSON from client")

\* Position of invocation i in the order of completion (0: not finished).
SettledAt(i) ==
  IF \E a \in 1..Len(settled) : settled[a] = i
  THEN CHOOSE a \in 1..Len(settled) : settled[a] = i
  ELSE 0

\* The one line that answers invocation i carries its id and its outcome.
AnsweredCorrectly(i) ==
  /\ i <= Len(inv)
  /\ inv[i].status = "replied"
  /\ Cardinality(RepliesTo(inv[i].h)) = 1
  /\ \A k \in RepliesTo(inv[i].h) :
       /\ Prop(out[k].obj, "id") = inv[i].id
       /\ IF inv[i].outcome.k = "returned"
          THEN Prop(out[k].obj, "result") = inv[i].outcome.v
                 /\ Prop(out[k].obj, "error") = Undefined
          ELSE Prop(out[k].obj, "result") = Undefined
                 /\ Prop(out[k].obj, "error") = ErrorObject("-32603", "Internal error")

AnnounceCount ==
  Cardinality({k \in 1..Len(out) : Prop(out[k].obj, "method") = Str("mcp/announce")})

-----------------------------------------------------------------------------
(* Properties *)

\* C1: feeding the delivered text chunk by chunk, cut anywhere, hands
\* _handleMessage the same messages in the same order as feeding the same
\* text to a fresh transport in one chunk.
C1_ChunkBoundaryIndependent ==
  handled = OnDataResult(FreshTransport, Consumed).handled

\* C1 witness: the whole text has been delivered, at least one chunk ended
\* inside a line, one chunk held several messages, and two messages came out.
C1_Witness ==
  /\ pos = Len(wire)
  /\ chunks = {"midline", "burst"}
  /\ Len(handled) >= 2

\* C2 (as claimed): no line on stdout answers a message that has a method
\* and no id.
C2_NoReplyToNotification ==
  \A k \in 1..Len(out) :
    out[k].h # 0 => ~(IsRequest(out[k].h) /\ Get(handled[out[k].h], "id") = Undefined)

\* C3: a message whose method has no handler is answered at once with one
\* reply of code -32601 and the id of the message, no handler is invoked for
\* it, and the registry still holds exactly what createServer registered.
C3_MethodNotFound ==
  \A h \in 1..Len(handled) :
    (IsRequest(h) /\ ~Has(Get(handled[h], "method"))) =>
      /\ Cardinality(RepliesTo(h)) = 1
      /\ \A k \in RepliesTo(h) :
           /\ Prop(out[k].obj, "id") = Get(handled[h], "id")
           /\ Prop(out[k].obj, "error") =
                ErrorObject("-32601", "Method not found: " \o Get(handled[h], "method").s)
           /\ Prop(out[k].obj, "result") = Undefined
      /\ InvocationsOf(h) = {}
      /\ handlers = AllRegistered

\* C3 witness: a request with an id and an unregistered method was answered.
C3_Witness ==
  \E h \in 1..Len(handled) :
    /\ IsRequest(h) /\ ~Has(Get(handled[h], "method"))
    /\ Get(handled[h], "id") = Num("1")
    /\ RepliesTo(h) # {}

\* The text of the internal-error reply for an id: it has no other input.
InternalErrorText(id) ==
  "{\"jsonrpc\":\"2.0\",\"id\":" \o id.s
    \o ",\"error\":{\"code\":-32603,\"message\":\"Internal error\"}}" \o NL

\* C4: the reply to a request (with an id) whose handler raised has code
\* -32603 and the id of the request, and its text is fixed by the id alone,
\* whatever was raised.
C4_InternalErrorHidesDetail ==
  \A i \in 1..Len(inv) :
    (inv[i].status = "replied" /\ inv[i].outcome.k = "threw" /\ inv[i].id # Undefined) =>
      \A k \in RepliesTo(inv[i].h) :
        /\ Prop(out[k].obj, "id") = inv[i].id
        /\ out[k].text = InternalErrorText(inv[i].id)

\* C4 witness: two requests with the same id whose handlers raised
\* different errors got the same reply text.
C4_Witness ==
  \E i, j \in 1..Len(inv) :
    /\ inv[i].status = "replied" /\ inv[j].status = "replied"
    /\ inv[i].outcome.k = "threw" /\ inv[j].outcome.k = "threw"
    /\ inv[i].outcome.v # inv[j].outcome.v
    /\ inv[i].id = inv[j].id /\ inv[i].id # Undefined
    /\ \E k \in RepliesTo(inv[i].h), l \in RepliesTo(inv[j].h) : out[k].text = out[l].text

\* Requests i and j, received in that order with distinct ids: both handlers
\* have finished, the one of i after the one of j.
C5_FirstFinishedLast(i, j) ==
  /\ i < j /\ j <= Len(inv)
  /\ inv[i].id # Undefined /\ inv[j].id # Undefined /\ inv[i].id # inv[j].id
  /\ SettledAt(j) > 0 /\ SettledAt(i) > SettledAt(j)

\* C5: two requests with distinct ids whose handlers both finish, the first
\* after the second: both replies are eventually on stdout, each with the id
\* and the outcome of its own request.
C5_RepliesCorrelated ==
  \A i \in 1..(MaxPieces - 1) : \A j \in (i + 1)..MaxPieces :
    C5_FirstFinishedLast(i, j) ~> (AnsweredCorrectly(i) /\ AnsweredCorrectly(j))

\* C5 witness: both replies are out after the first request finished last.
C5_Witness ==
  \E i, j \in 1..Len(inv) :
    /\ C5_FirstFinishedLast(i, j)
    /\ AnsweredCorrectly(i) /\ AnsweredCorrectly(j)
    /\ inv[i].outcome.k = "returned" /\ inv[j].outcome.k = "returned"
    /\ inv[i].outcome.v # inv[j].outcome.v

\* Message h is a request with an id whose lookup failed or whose handler
\* has finished.
C6_Finished(h) ==
  /\ h <= Len(handled) /\ IsRequest(h) /\ Get(handled[h], "id") # Undefined
  /\ \/ ~Has(Get(handled[h], "method"))
     \/ \E i \in InvocationsOf(h) : SettledAt(i) > 0

\* C6 (as claimed): a request with an id has at most one invocation and at
\* most one reply, and once its lookup has failed or its handler has
\* finished it gets its reply.
C6_ExactlyOneReply ==
  \A h \in 1..MaxPieces :
    /\ [](h <= Len(handled) =>
            Cardinality(InvocationsOf(h)) <= 1 /\ Cardinality(RepliesTo(h)) <= 1)
    /\ (C6_Finished(h) ~> (Cardinality(RepliesTo(h)) = 1))

\* C7: each non-blank line that does not parse is logged once, in order, and
\* nothing else comes of it: the messages handled are those of the lines that
\* parse, as if the others were absent, and every reply and every invocation
\* belongs to one of those messages.
C7_InvalidLineIsolated ==
  \A lines \in {ProcessedLines(RefLines(Consumed, <<>>))} :
  \A bad \in {SelectSeq(lines, IsInvalidLine)}, good \in {SelectSeq(lines, IsValidLine)} :
      /\ Len(InvalidJSONLog) = Len(bad)
      /\ \A k \in 1..Len(bad) : InvalidJSONLog[k].line = Stripped(bad[k])
      /\ Len(handled) = Len(good)
      /\ \A k \in 1..Len(good) : handled[k] = JSONParse(Stripped(good[k]))
      /\ \A k \in 1..Len(out) :
           IF out[k].h = 0 THEN k = 1 ELSE out[k].h <= Len(handled) /\ IsRequest(out[k].h)
      /\ \A i \in 1..Len(inv) : inv[i].h <= Len(handled) /\ IsRequest(inv[i].h)

\* C7 witness: an invalid line was logged and the line after it was handled.
C7_Witness ==
  \E lines \in {ProcessedLines(RefLines(Consumed, <<>>))} :
      /\ Len(lines) = 2
      /\ IsInvalidLine(lines[1]) /\ IsValidLine(lines[2])
      /\ Len(InvalidJSONLog) = 1 /\ Len(handled) = 1

\* A message with neither a method nor an id.
C8_Inert(h) == Get(handled[h], "method") = Undefined /\ Get(handled[h], "id") = Undefined

\* C8 (as claimed): a parsed value with neither a method nor an id is
\* dropped: no exception leaves _onData, nothing is sent, invoked or resolved
\* for it.
C8_InertDropped ==
  \A h \in 1..Len(handled) :
    C8_Inert(h) =>
      /\ ~(crashed /\ h = Len(handled))
      /\ RepliesTo(h) = {} /\ InvocationsOf(h) = {}
      /\ \A k \in 1..Len(resolved) : resolved[k] # handled[h]

\* C9: an empty or white-space-only line leaves no trace: every line that is
\* not blank gives one message or one log entry and a blank line gives
\* neither, stdout holds the announce and the replies to requests and nothing
\* else, and the buffer holds only what follows the last newline.
C9_BlankLineIgnored ==
  \A lines \in {ProcessedLines(RefLines(Consumed, <<>>))} :
  \A inked \in {SelectSeq(lines, LAMBDA l : ~IsBlankLine(l))} :
      /\ Len(handled) + Len(InvalidJSONLog) = Len(inked)
      /\ Len(out) = AnnounceCount
                      + Cardinality({i \in 1..Len(inv) : inv[i].status = "replied"})
                      + Cardinality({h \in 1..Len(handled) :
                                       IsRequest(h) /\ ~Has(Get(handled[h], "method"))})
      /\ ~crashed => (pos = 0 \/ buffer = RefTail(Consumed, <<>>))

\* C9 witness: a white-space-only line and an empty line were consumed and
\* the message after them was handled.
C9_Witness ==
  \E lines \in {ProcessedLines(RefLines(Consumed, <<>>))} :
      /\ \E a \in 1..Len(lines) : lines[a] = <<>>
      /\ \E a \in 1..Len(lines) : lines[a] # <<>> /\ IsBlankLine(lines[a])
      /\ handled = <<>> /\ errlog = <<>> /\ Len(out) = 1
      /\ buffer = <<>> /\ pos = Len(wire) /\ ~crashed

\* C10: the announce is on stdout exactly once from the end of createServer
\* on and not before; when it is there every handler is registered and the
\* 'data' listener is installed.
C10_AnnounceOnce ==
  /\ pc = "running" => AnnounceCount = 1
  /\ pc # "running" => AnnounceCount = 0
  /\ AnnounceCount >= 1 => handlers = AllRegistered /\ listening

\* C10 witness: the announce was sent, then a request was answered, and the
\* announce is still the only one.
C10_Witness ==
  /\ AnnounceCount = 1
  /\ Len(out) >= 3
  /\ Prop(out[1].obj, "method") = Str("mcp/announce")

\* Message h is a request with an id for `method`.
RequestFor(h, method) ==
  IsRequest(h) /\ Get(handled[h], "method") = Str(method) /\ Get(handled[h], "id") # Undefined

\* The result the claim describes: the protocol version, the name and the
\* version given to new MCPServer, the capabilities given to it, and an empty
\* list of templates.
C11_ExpectedResult ==
  Obj("{\"protocolVersion\":\"2024-11-05\","
        \o "\"serverInfo\":{\"name\":\"mysql-mcp-server\",\"version\":\"1.0.1\"},"
        \o "\"capabilities\":{\"resources\":{\"list\":true,\"read\":true,\"listChanged\":true,"
        \o "\"templates\":true},\"tools\":{\"list\":true,\"call\":true}},"
        \o "\"resourceTemplates\":[]}")

\* C11: a request `initialize` with an id has one handler invocation and
\* never more than one reply; once _onRequest has resumed it has exactly
\* one, and that reply carries the id of the request, no error, and as
\* result the protocol version, the server's name and version, its
\* capabilities and an empty templates list.
C11_InitializeAnswered ==
  \A h \in 1..Len(handled) :
    RequestFor(h, "initialize") =>
      /\ Cardinality(InvocationsOf(h)) = 1
      /\ Cardinality(RepliesTo(h)) <= 1
      /\ \A i \in InvocationsOf(h) :
           inv[i].status = "replied" <=> Cardinality(RepliesTo(h)) = 1
      /\ \A k \in RepliesTo(h) :
           /\ Prop(out[k].obj, "id") = Get(handled[h], "id")
           /\ Prop(out[k].obj, "result") = C11_ExpectedResult
           /\ Prop(out[k].obj, "error") = Undefined
           /\ out[k].text = "{\"jsonrpc\":\"2.0\",\"id\":" \o Get(handled[h], "id").s
                              \o ",\"result\":" \o C11_ExpectedResult.s \o "}" \o NL

\* C11 witness: `initialize` with id 1 has been answered.
C11_Witness ==
  \E h \in 1..Len(handled) :
    /\ RequestFor(h, "initialize") /\ Get(handled[h], "id") = Num("1")
    /\ \E k \in RepliesTo(h) : Prop(out[k].obj, "result") = C11_ExpectedResult

\* Invocation i was made for a request with an id and its handler returned.
C12_Succeeded(i) == inv[i].id # Undefined /\ inv[i].outcome.k = "returned"

\* C12: the reply to a request with an id whose handler returned carries
\* that id, carries as result the very value the handler returned, and
\* carries no error; it is there, once, as soon as _onRequest has resumed.
C12_ResultIsReturnValue ==
  \A i \in 1..Len(inv) :
    C12_Succeeded(i) =>
      /\ inv[i].status = "replied" <=> Cardinality(RepliesTo(inv[i].h)) = 1
      /\ inv[i].status # "replied" => RepliesTo(inv[i].h) = {}
      /\ \A k \in RepliesTo(inv[i].h) :
           /\ Prop(out[k].obj, "id") = inv[i].id
           /\ Prop(out[k].obj, "result") = inv[i].outcome.v
           /\ Prop(out[k].obj, "error") = Undefined
           /\ out[k].text = "{\"jsonrpc\":\"2.0\",\"id\":" \o inv[i].id.s
                              \o ",\"result\":" \o inv[i].outcome.v.s \o "}" \o NL

\* C12 witness: a handler that waited for the store returned the table list
\* and the reply with the request's id carries it.
C12_Witness ==
  \E i \in 1..Len(inv) :
    /\ C12_Succeeded(i) /\ inv[i].method = "resources/list" /\ inv[i].id = Num("2")
    /\ \E k \in RepliesTo(inv[i].h) :
         /\ Prop(out[k].obj, "result") = inv[i].outcome.v
         /\ inv[i].outcome.v # Obj("{\"resources\":[]}")

\* Message h names the method `initialized` (with or without an id).
C13_IsInitialized(h) == IsRequest(h) /\ Get(handled[h], "method") = Str("initialized")

\* C13: a message named `initialized` gets one invocation of its handler,
\* which returns; no line with an error answers it, and the one line that
\* answers it once _onRequest has resumed carries the empty object as
\* result.
C13_InitializedAcknowledged ==
  \A h \in 1..Len(handled) :
    C13_IsInitialized(h) =>
      /\ Cardinality(InvocationsOf(h)) = 1
      /\ \A i \in InvocationsOf(h) :
           /\ inv[i].method = "initialized"
           /\ inv[i].outcome = Returned(Obj("{}"))
           /\ inv[i].status = "replied" <=> Cardinality(RepliesTo(h)) = 1
           /\ inv[i].status # "replied" => RepliesTo(h) = {}
      /\ \A k \in RepliesTo(h) :
           /\ Prop(out[k].obj, "error") = Undefined
           /\ Prop(out[k].obj, "result") = Obj("{}")
           /\ Prop(out[k].obj, "id") = Get(handled[h], "id")

\* C13 witness: `initialized` was received and the acknowledgement is on
\* stdout.
C13_Witness ==
  \E h \in 1..Len(handled) :
    /\ C13_IsInitialized(h)
    /\ \E k \in RepliesTo(h) : out[k].text = "{\"jsonrpc\":\"2.0\",\"result\":{}}" \o NL

\* The property names that appear in the text JSON.stringify gives for an
\* outbound object: those whose value is not undefined.
SerializedKeys(obj) == {obj[i][1] : i \in {j \in 1..Len(obj) : obj[j][2].t # "undef"}}

\* A line of stdout that is a reply: it has no method.
IsReply(k) == "method" \notin SerializedKeys(out[k].obj)

\* C14: the text of every reply on stdout has exactly one of the
\* properties result and error, whatever the handler returned or raised and
\* whatever the id of the request was.
C14_ResultXorError ==
  \A k \in 1..Len(out) :
    IsReply(k) => Cardinality(SerializedKeys(out[k].obj) \cap {"result", "error"}) = 1

\* C14 witness: stdout holds a reply with a result and a reply with an
\* error that was written after a handler raised.
C14_Witness ==
  /\ \E k \in 1..Len(out) : IsReply(k) /\ "result" \in SerializedKeys(out[k].obj)
  /\ \E k \in 1..Len(out) :
       /\ IsReply(k) /\ "error" \in SerializedKeys(out[k].obj)
       /\ \E i \in InvocationsOf(out[k].h) : inv[i].outcome.k = "threw"

\* The handler of invocation i has not completed.
C15_Hung(i) == i <= Len(inv) /\ inv[i].status = "running"

\* While a handler hangs, every complete line delivered is framed and
\* classified, and every request dispatched: one invocation when its method
\* is registered, the -32601 reply when it is not.
C15_StillDispatching ==
  (\E i \in 1..Len(inv) : C15_Hung(i)) =>
    /\ \A lines \in {ProcessedLines(RefLines(Consumed, <<>>))} :
         Len(handled) + Len(InvalidJSONLog)
           = Len(SelectSeq(lines, LAMBDA l : ~IsBlankLine(l)))
    /\ \A h \in 1..Len(handled) :
         IsRequest(h) =>
           IF Has(Get(handled[h], "method"))
           THEN Cardinality(InvocationsOf(h)) = 1
           ELSE Cardinality(RepliesTo(h)) = 1 /\ InvocationsOf(h) = {}

\* C15: a handler that has not completed holds back no line and no other
\* reply.  In every state with a hung handler all delivered lines have been
\* framed, classified and dispatched; and whenever, in a running process,
\* the handler of a later request completes while an earlier one hangs, the
\* later request gets its reply, whether or not the earlier handler ever
\* completes.
C15_HungHandlerBlocksOnlyItself ==
  /\ []C15_StillDispatching
  /\ \A i \in 1..(MaxPieces - 1) : \A j \in (i + 1)..MaxPieces :
       (C15_Hung(i) /\ j <= Len(inv) /\ inv[j].status = "settled" /\ ~crashed)
         ~> AnsweredCorrectly(j)

\* C15 witness: a later request has its reply while the handler of an
\* earlier one still hangs.
C15_Witness ==
  \E i, j \in 1..Len(inv) :
    /\ i < j /\ C15_Hung(i)
    /\ AnsweredCorrectly(j)
    /\ pos = Len(wire)

\* Every reply on stdout answers a request that was received, carries the id
\* of that request, and is there only if the lookup found no handler or the
\* handler invoked for that request has completed.
C17_RepliesFollowCompletion ==
  /\ \A k \in 1..Len(out) :
       IsReply(k) =>
         /\ out[k].h \in 1..Len(handled) /\ IsRequest(out[k].h)
         /\ Prop(out[k].obj, "id") = Get(handled[out[k].h], "id")
         /\ IF Has(Get(handled[out[k].h], "method"))
            THEN \E i \in InvocationsOf(out[k].h) :
                   inv[i].status = "replied" /\ SettledAt(i) > 0
            ELSE InvocationsOf(out[k].h) = {}
  /\ \A i \in 1..Len(inv) :
       inv[i].status \in {"running", "settled"} => RepliesTo(inv[i].h) = {}

\* C17: in every state the replies on stdout answer received requests whose
\* handler has completed (or whose method has no handler) and carry their
\* ids, no request whose handler is running has a reply, and a step writes
\* the reply to a request only from a state in which its handler had
\* already completed.
C17_ReplyOnlyAfterHandler ==
  /\ []C17_RepliesFollowCompletion
  /\ [][\A i \in 1..Len(inv) :
          (RepliesTo(inv[i].h) = {} /\ (RepliesTo(inv[i].h))' # {}) =>
             (inv[i].status = "settled" /\ SettledAt(i) > 0)]_vars

\* C17 witness: a request whose handler waited for the store has its reply,
\* while another request whose handler is still running has none.
C17_Witness ==
  \E i, j \in 1..Len(inv) :
    /\ inv[i].status = "replied" /\ inv[i].method = "resources/list"
    /\ RepliesTo(inv[i].h) # {}
    /\ inv[j].status = "running" /\ RepliesTo(inv[j].h) = {}

\* The text that gave these lines: each line followed by its "\n".
RECURSIVE Flatten(_)
Flatten(ls) == IF ls = <<>> THEN <<>> ELSE Head(ls) \o <<NL>> \o Flatten(Tail(ls))

\* C20: the lines cut so far, each with its newline, followed by the buffer
\* are exactly the text received, so every character went into one line
\* once or is still in the buffer; no line holds a newline; and whenever
\* _onData has returned (it has not been left by an exception) the buffer
\* holds no newline and is the text received after the last newline, and the
\* lines cut are all the complete lines received.
C20_BufferIsIncompleteTail ==
  /\ Flatten(extracted) \o buffer = Consumed
  /\ \A a \in 1..Len(extracted) : IndexOfNL(extracted[a]) = 0
  /\ ~crashed =>
       /\ IndexOfNL(buffer) = 0
       /\ buffer = RefTail(Consumed, <<>>)
       /\ extracted = RefLines(Consumed, <<>>)

\* C20 witness: two lines have been cut and the last chunk ended inside a
\* third, whose start the buffer holds.
C20_Witness ==
  /\ ~crashed /\ "midline" \in chunks
  /\ Len(extracted) >= 2
  /\ SelectSeq(buffer, NotWhite) # <<>>

\* The request of invocation i has a params property.
C18_HasParams(i) == "params" \in DOMAIN handled[inv[i].h].f

\* C18 (as claimed): the handler is called with the params of the request
\* whenever the request has a params property, whatever its value, and with
\* the empty object only when it has none.
C18_ParamsPassedAsReceived ==
  \A i \in 1..Len(inv) :
    inv[i].arg = IF C18_HasParams(i) THEN Get(handled[inv[i].h], "params") ELSE EmptyObject

\* The sql texts of the model that begin, after optional white space and in
\* any case, with SELECT followed by white space.
C19_SelectTexts == {"SELECT 1", " Select 1"}

\* The two results the tool gives instead of querying.
C19_Refusals ==
  { Returned(Obj("{\"error\":\"Unknown tool\"}")),
    Returned(Obj("{\"error\":\"Only SELECT queries allowed\"}")) }

\* C19: an invocation of the tools/call handler passes a statement to
\* pool.query only when the tool name is `query` and the sql text begins
\* with SELECT and white space, and then it passes that text; for every
\* other name or sql text, for a call without arguments and for a call
\* without params it issues no query and returns at once a result that holds
\* an error.
C19_QueryOnlySelect ==
  \A i \in 1..Len(inv) :
    inv[i].method = "tools/call" =>
      IF \E q \in C19_SelectTexts : inv[i].arg = ToolParams("query", q)
      THEN \E q \in C19_SelectTexts :
             inv[i].arg = ToolParams("query", q) /\ inv[i].query = Str(q)
      ELSE /\ inv[i].query = Undefined
           /\ inv[i].outcome \in C19_Refusals
           /\ SettledAt(i) > 0

\* C19 witness: a SELECT written in mixed case after a space was passed to
\* the store and a DROP was refused without a query.
C19_Witness ==
  /\ \E i \in 1..Len(inv) :
       inv[i].arg = ToolParams("query", " Select 1") /\ inv[i].query = Str(" Select 1")
  /\ \E i \in 1..Len(inv) :
       /\ inv[i].arg = ToolParams("query", "DROP TABLE t")
       /\ inv[i].query = Undefined /\ inv[i].status = "replied"

\* Message h has no method and carries an id, whatever its value.
C16_IsReplyMessage(h) ==
  /\ handled[h].t = "obj"
  /\ Get(handled[h], "method") = Undefined
  /\ Get(handled[h], "id") # Undefined

\* The resolver calls made for the id v.
C16_CallsFor(v) == {k \in 1..Len(resolved) : Get(resolved[k], "id") = v}

\* The ids that had a resolver at the start: nothing registers one later, so
\* they are those that still have one and those whose resolver was called.
C16_Registered == pending \cup {Get(resolved[k], "id") : k \in 1..Len(resolved)}

\* The first message without a method that carries the id v.
C16_FirstWith(v) ==
  CHOOSE h \in 1..Len(handled) :
    /\ C16_IsReplyMessage(h) /\ Get(handled[h], "id") = v
    /\ \A g \in 1..(h - 1) : ~(C16_IsReplyMessage(g) /\ Get(handled[g], "id") = v)

====
